---- MODULE Spec2Model ----
(***************************************************************************)
(* Model of the quantum circuit simulator's session (app.py): the          *)
(* in-memory circuit_state dictionary and the four request handlers         *)
(* reset_circuit, load_example, add_gate and simulate_circuit.             *)
(*                                                                         *)
(* A QuantumCircuit is modelled by its register size and the list of       *)
(* instructions its methods append (circuit.data); AerSimulator.run by an  *)
(* exact state-vector evaluation of that list, with amplitudes kept as     *)
(* integers scaled by sqrt(2)^hadamards (the number of Hadamards applied).  *)
(***************************************************************************)
EXTENDS Integers, Sequences, FiniteSets, TLC

VARIABLES circuit_state, response

vars == <<circuit_state, response>>

(***************************************************************************)
(* Program constants.                                                      *)
(***************************************************************************)
MinQubits == 1
MaxQubits == 5
MinShots == 100
MaxShots == 10000

BellName == "Bell State (Entanglement)"
GroverName == "Grover's Algorithm (2-Qubit Search)"

GateTypes == {"H (Hadamard)", "X (Pauli-X)", "CX (CNOT)", "CZ (Controlled-Z)", "Measure"}
TwoQubitTypes == {"CX (CNOT)", "CZ (Controlled-Z)"}

\* target_qubit / control_qubit default to None; None stands outside every
\* index range, which is all the handler ever asks of it.
NoneIndex == -2

(***************************************************************************)
(* Bounds of the model.                                                    *)
(***************************************************************************)
\* add_gate requests are accepted while the register size plus the length of
\* the gate list (the circuit's width plus its depth) stays within this
MaxSize == 4
\* largest qubit index a request carries
MaxIndexArg == 1

QubitsArgs == (MinQubits - 2) .. (MaxQubits + 1)
\* (a negative index fails the same range tests as None does)
IndexArgs == {NoneIndex} \cup (0 .. MaxIndexArg)
GateTypeArgs == GateTypes \cup {"T (unsupported)"}
ExampleArgs == {BellName, GroverName, "Teleportation (unknown)"}
ShotsArgs == {MinShots - 1, MinShots, MaxShots, MaxShots + 1}

\* The GateRequest bodies: a field the handler never reads for the request's
\* gate type (the control of a one-qubit gate, the target of a Measure or of
\* an unsupported type) is left at its default, None.
GateRequest(gate_type, target_qubit, control_qubit, qubits) ==
    [gate_type |-> gate_type, target_qubit |-> target_qubit,
     control_qubit |-> control_qubit, qubits |-> qubits]

GateRequests ==
    {GateRequest(g, NoneIndex, NoneIndex, q) :
        g \in GateTypeArgs \ (GateTypes \ {"Measure"}), q \in QubitsArgs}
    \cup {GateRequest(g, t, NoneIndex, q) :
        g \in GateTypes \ (TwoQubitTypes \cup {"Measure"}), t \in IndexArgs,
        q \in QubitsArgs}
    \cup {GateRequest(g, t, c, q) :
        g \in TwoQubitTypes, t \in IndexArgs, c \in IndexArgs, q \in QubitsArgs}

\* The circuit_state dictionary.
Session(qubits, circuit, gates) ==
    [qubits |-> qubits, circuit |-> circuit, gates |-> gates]

(***************************************************************************)
(* QuantumCircuit                                                          *)
(***************************************************************************)
None == [is_none |-> TRUE, num_qubits |-> 0, data |-> <<>>]

\* QuantumCircuit(n, n): n qubits, n classical bits, no instructions.
QuantumCircuit(n) == [is_none |-> FALSE, num_qubits |-> n, data |-> <<>>]

\* The register constructor rejects a negative size.
QuantumCircuitRaises(n) == n < 0

Instr(name, qargs) == [name |-> name, qargs |-> qargs]

CircAppend(circ, name, qargs) ==
    [circ EXCEPT !.data = Append(@, Instr(name, qargs))]

\* circuit.measure(range(k), range(k)): one measure instruction per qubit
\* i in 0..k-1, into classical bit i; none at all when k <= 0.
RECURSIVE MeasureFrom(_, _, _)
MeasureFrom(circ, i, k) ==
    IF i >= k THEN circ
    ELSE MeasureFrom(CircAppend(circ, "measure", <<i>>), i + 1, k)

MeasureRange(circ, k) == MeasureFrom(circ, 0, k)

\* measure on a qubit index the circuit does not have raises.
MeasureRaises(circ, k) == k > circ.num_qubits

(***************************************************************************)
(* Entries of circuit_state["gates"]                                       *)
(***************************************************************************)
\* ("H", t), ("X", t): form "index";  ("CX", c, t), ("CZ", c, t): form
\* "index" with two arguments;  ("H", [0, 1]), ("Grover Operator", [0, 1]):
\* form "list";  ("Measure", "All"): form "all".
Entry(name, form, args) == [name |-> name, form |-> form, args |-> args]

MeasureEntry == Entry("Measure", "all", <<>>)

\* [g[0] for g in circuit_state["gates"]]
GateNames(gates) == {gates[i].name : i \in 1..Len(gates)}

(***************************************************************************)
(* Responses                                                               *)
(***************************************************************************)
NoCounts == <<>>

\* What a request comes back with: the status code, and of an error the
\* detail's prefix and the text of its cause, of a simulation shots and counts.
Response(op, status, detail, cause, shots, counts) ==
    [op |-> op, status |-> status, detail |-> detail, cause |-> cause,
     shots |-> shots, counts |-> counts]

\* A handler's effect: the response it returns and the session it leaves.
Outcome(session, reply) == [response |-> reply, state |-> session]

\* shots and counts are 0 and empty except for a simulation.
Ok(op, shots, counts) == Response(op, 200, "", "", shots, counts)

\* Every handler body sits in try/except Exception: an HTTPException(400)
\* raised inside is caught and raised again as HTTPException(500) whose
\* detail is the handler's prefix followed by the text of the cause.
Rewrapped(op, prefix, cause) == Response(op, 500, prefix, cause, 0, NoCounts)

Init ==
    /\ circuit_state = Session(2, None, <<>>)
    /\ response = Ok("start", 0, NoCounts)

(***************************************************************************)
(* GET /reset                                                              *)
(***************************************************************************)
ResetFail(cause) == Rewrapped("reset", "Failed to reset circuit: ", cause)

\* A slip of line 68: the circuit is made one qubit wider than asked.
Cleared_Wider(qubits) ==
    Session(qubits, QuantumCircuit(qubits + 1), <<>>)

\* The session as lines 67-69 (and 81-83, 115-117) leave it.
Cleared(qubits) ==
    Session(qubits, QuantumCircuit(qubits), <<>>)

\* The handler on session cs: the session it leaves and the response.
ResetOutcome(cs, qubits) ==
    IF ~(MinQubits <= qubits /\ qubits <= MaxQubits)
    THEN Outcome(cs, ResetFail("Qubits must be between 1 and 5"))
    ELSE Outcome(Cleared(qubits), Ok("reset", 0, NoCounts))

Reset(qubits) ==
    \E out \in {ResetOutcome(circuit_state, qubits)} :
        /\ circuit_state' = out.state
        /\ response' = out.response

(***************************************************************************)
(* GET /load_example                                                       *)
(***************************************************************************)
LoadFail(cause) == Rewrapped("load_example", "Failed to load example: ", cause)

BellCircuit(circ) == CircAppend(CircAppend(circ, "h", <<0>>), "cx", <<0, 1>>)

BellGates == <<Entry("H", "index", <<0>>), Entry("CX", "index", <<0, 1>>)>>

\* circuit.h([0, 1]) broadcasts to one h per qubit; the Grover operator is
\* appended as a single instruction on qubits 0 and 1.
GroverCircuit(circ) ==
    CircAppend(CircAppend(CircAppend(circ, "h", <<0>>), "h", <<1>>),
               "grover", <<0, 1>>)

GroverGates ==
    <<Entry("H", "list", <<0, 1>>), Entry("Grover Operator", "list", <<0, 1>>)>>

\* The handler on session cs: the session it leaves and the response.  The
\* session is cleared (lines 81-83) before the example name is looked at.
LoadExampleOutcome(cs, example, qubits) ==
    IF ~(MinQubits <= qubits /\ qubits <= MaxQubits)
    THEN Outcome(cs, LoadFail("Qubits must be between 1 and 5"))
    ELSE LET s == Cleared(qubits) IN
         IF example = BellName
         THEN IF qubits < 2
              THEN Outcome(s, LoadFail("Bell State requires at least 2 qubits"))
              ELSE Outcome([s EXCEPT !.circuit = BellCircuit(@), !.gates = BellGates],
                           Ok("load_example", 0, NoCounts))
         ELSE IF example = GroverName
         THEN IF qubits # 2
              THEN Outcome(s, LoadFail("Grover's example requires exactly 2 qubits"))
              ELSE Outcome([s EXCEPT !.circuit = GroverCircuit(@), !.gates = GroverGates],
                           Ok("load_example", 0, NoCounts))
         ELSE Outcome(s, LoadFail("Invalid example"))

LoadExample(example, qubits) ==
    \E out \in {LoadExampleOutcome(circuit_state, example, qubits)} :
        /\ circuit_state' = out.state
        /\ response' = out.response

(***************************************************************************)
(* POST /add_gate                                                          *)
(***************************************************************************)
AddFail(cause) == Rewrapped("add_gate", "Failed to add gate: ", cause)

\* A slip of line 114: every request starts a new circuit.
NeedsNewCircuit_Always(cs, qubits) == TRUE

\* Line 114: the request starts a new circuit.
NeedsNewCircuit(cs, qubits) == cs.circuit.is_none \/ cs.qubits # qubits

\* Lines 119-129 without the check of lines 128-129.
GateError_NoDistinctCheck(gate_type, target, control, qubits) ==
    IF gate_type \notin GateTypes THEN "Invalid gate type"
    ELSE IF gate_type = "Measure" THEN ""
    ELSE IF target = NoneIndex \/ ~(0 <= target /\ target < qubits)
         THEN "Invalid target qubit"
    ELSE IF gate_type \notin TwoQubitTypes THEN ""
    ELSE IF control = NoneIndex \/ ~(0 <= control /\ control < qubits)
         THEN "Invalid control qubit"
    ELSE ""

\* Lines 119-129: the text of the HTTPException(400) the request draws, or ""
\* when it passes.
GateError(gate_type, target, control, qubits) ==
    IF gate_type \notin GateTypes THEN "Invalid gate type"
    ELSE IF gate_type = "Measure" THEN ""
    ELSE IF target = NoneIndex \/ ~(0 <= target /\ target < qubits)
         THEN "Invalid target qubit"
    ELSE IF gate_type \notin TwoQubitTypes THEN ""
    ELSE IF control = NoneIndex \/ ~(0 <= control /\ control < qubits)
         THEN "Invalid control qubit"
    ELSE IF control = target THEN "Control and target qubits must be different"
    ELSE ""

\* Lines 131-145: the gate applied to the circuit and described in the list.
ApplyGate(cs, gate_type, target, control, qubits) ==
    IF gate_type = "H (Hadamard)"
    THEN [cs EXCEPT !.circuit = CircAppend(@, "h", <<target>>),
                    !.gates = Append(@, Entry("H", "index", <<target>>))]
    ELSE IF gate_type = "X (Pauli-X)"
    THEN [cs EXCEPT !.circuit = CircAppend(@, "x", <<target>>),
                    !.gates = Append(@, Entry("X", "index", <<target>>))]
    ELSE IF gate_type = "CX (CNOT)"
    THEN [cs EXCEPT !.circuit = CircAppend(@, "cx", <<control, target>>),
                    !.gates = Append(@, Entry("CX", "index", <<control, target>>))]
    ELSE IF gate_type = "CZ (Controlled-Z)"
    THEN [cs EXCEPT !.circuit = CircAppend(@, "cz", <<control, target>>),
                    !.gates = Append(@, Entry("CZ", "index", <<control, target>>))]
    ELSE [cs EXCEPT !.circuit = MeasureRange(@, qubits),
                    !.gates = Append(@, MeasureEntry)]

\* Bound on the gate list an add_gate request may extend.
GateBound(qubits) == MaxSize - (IF qubits < 1 THEN 1 ELSE qubits)

\* The handler on session cs: the session it leaves and the response.
AddGateOutcome(cs, gate_type, target, control, qubits) ==
    IF NeedsNewCircuit(cs, qubits) /\ QuantumCircuitRaises(qubits)
    THEN \* line 115 has run, line 116 raises
         Outcome([cs EXCEPT !.qubits = qubits], AddFail("CircuitError"))
    ELSE LET s == IF NeedsNewCircuit(cs, qubits) THEN Cleared(qubits) ELSE cs
             err == GateError(gate_type, target, control, qubits)
         IN IF err # ""
            THEN Outcome(s, AddFail(err))
            ELSE IF gate_type = "Measure" /\ MeasureRaises(s.circuit, qubits)
            THEN Outcome(s, AddFail("CircuitError"))
            ELSE Outcome(ApplyGate(s, gate_type, target, control, qubits),
                         Ok("add_gate", 0, NoCounts))

AddGate(gate_type, target, control, qubits) ==
    \E out \in {AddGateOutcome(circuit_state, gate_type, target, control, qubits)} :
        /\ out.response.status = 200 =>
               Len(out.state.gates) <= GateBound(out.state.qubits)
        /\ circuit_state' = out.state
        /\ response' = out.response

(***************************************************************************)
(* AerSimulator().run(circuit, shots).result().get_counts(circuit)         *)
(***************************************************************************)
RECURSIVE Pow2(_)
Pow2(n) == IF n <= 0 THEN 1 ELSE 2 * Pow2(n - 1)

\* bit q of basis index i (qubit q is bit q of the index)
Bit(i, q) == (i \div Pow2(q)) % 2

Flip(i, q) == IF Bit(i, q) = 0 THEN i + Pow2(q) ELSE i - Pow2(q)

\* A configuration of one shot: the non-zero amplitudes (times
\* sqrt(2)^hadamards) of the basis states, by basis index, and the classical
\* register.
InitialConfig(n) ==
    [amp |-> [i \in {0} |-> 1],
     hadamards |-> 0,
     creg |-> [q \in 0 .. (n - 1) |-> 0]]

Amp(a, i) == IF i \in DOMAIN a THEN a[i] ELSE 0

NonZero(a) == [i \in {j \in DOMAIN a : a[j] # 0} |-> a[i]]

\* A Hadamard that leaves out the factor 1/sqrt(2).
ApplyH_Unscaled(cfg, q) ==
    [cfg EXCEPT !.amp = NonZero(
                    [i \in DOMAIN cfg.amp \cup {Flip(j, q) : j \in DOMAIN cfg.amp} |->
                        IF Bit(i, q) = 0
                        THEN Amp(cfg.amp, i) + Amp(cfg.amp, Flip(i, q))
                        ELSE Amp(cfg.amp, Flip(i, q)) - Amp(cfg.amp, i)])]

ApplyH(cfg, q) ==
    [cfg EXCEPT !.amp = NonZero(
                    [i \in DOMAIN cfg.amp \cup {Flip(j, q) : j \in DOMAIN cfg.amp} |->
                        IF Bit(i, q) = 0
                        THEN Amp(cfg.amp, i) + Amp(cfg.amp, Flip(i, q))
                        ELSE Amp(cfg.amp, Flip(i, q)) - Amp(cfg.amp, i)]),
                !.hadamards = @ + 1]

ApplyX(cfg, q) ==
    [cfg EXCEPT !.amp = [i \in {Flip(j, q) : j \in DOMAIN cfg.amp} |->
                            cfg.amp[Flip(i, q)]]]

\* A CX that flips its target whatever the control holds.
CXImage_NoControl(i, c, t) == Flip(i, t)

\* CX exchanges basis state i with CXImage(i, c, t).
CXImage(i, c, t) == IF Bit(i, c) = 1 THEN Flip(i, t) ELSE i

ApplyCX(cfg, c, t) ==
    [cfg EXCEPT !.amp = [i \in {CXImage(j, c, t) : j \in DOMAIN cfg.amp} |->
                            cfg.amp[CXImage(i, c, t)]]]

ApplyCZ(cfg, c, t) ==
    [cfg EXCEPT !.amp = [i \in DOMAIN cfg.amp |->
                            IF Bit(i, c) = 1 /\ Bit(i, t) = 1
                            THEN 0 - cfg.amp[i] ELSE cfg.amp[i]]]

\* Measuring qubit q into classical bit q: each result of non-zero
\* probability is a branch, the state collapsed onto it.
ApplyMeasure(cfg, q) ==
    {[cfg EXCEPT !.amp = [i \in {j \in DOMAIN cfg.amp : Bit(j, q) = b} |-> cfg.amp[i]],
                 !.creg = [@ EXCEPT ![q] = b]] :
        b \in {Bit(i, q) : i \in DOMAIN cfg.amp}}

\* GroverOperator(oracle) with oracle = cz(0, 1) on two qubits: the oracle,
\* then the diffuser H.H, X.X, (H, CX, H on qubit 1), X.X, H.H (up to a
\* global phase).
GroverOperatorData ==
    <<Instr("cz", <<0, 1>>),
      Instr("h", <<0>>), Instr("h", <<1>>),
      Instr("x", <<0>>), Instr("x", <<1>>),
      Instr("h", <<1>>), Instr("cx", <<0, 1>>), Instr("h", <<1>>),
      Instr("x", <<0>>), Instr("x", <<1>>),
      Instr("h", <<0>>), Instr("h", <<1>>)>>

\* The common factor 2 every amplitude gains from two Hadamards is dropped.
Reduce(cfg) ==
    IF cfg.hadamards >= 2 /\ \A i \in DOMAIN cfg.amp : cfg.amp[i] % 2 = 0
    THEN [cfg EXCEPT !.amp = [i \in DOMAIN cfg.amp |-> cfg.amp[i] \div 2],
                     !.hadamards = @ - 2]
    ELSE cfg

RECURSIVE ExecFrom(_, _, _)
ExecInstr(ins, cfg) ==
    IF ins.name = "h" THEN {Reduce(ApplyH(cfg, ins.qargs[1]))}
    ELSE IF ins.name = "x" THEN {ApplyX(cfg, ins.qargs[1])}
    ELSE IF ins.name = "cx" THEN {ApplyCX(cfg, ins.qargs[1], ins.qargs[2])}
    ELSE IF ins.name = "cz" THEN {ApplyCZ(cfg, ins.qargs[1], ins.qargs[2])}
    ELSE IF ins.name = "measure" THEN ApplyMeasure(cfg, ins.qargs[1])
    ELSE ExecFrom(GroverOperatorData, 1, {cfg})

\* The configurations a shot can be in after instructions i.. of data.
ExecFrom(data, i, cfgs) ==
    IF i > Len(data) THEN cfgs
    ELSE ExecFrom(data, i + 1, UNION {ExecInstr(data[i], cfg) : cfg \in cfgs})

Exec(circ) == ExecFrom(circ.data, 1, {InitialConfig(circ.num_qubits)})

\* A shot's key in the counts: classical bit n-1 first, bit 0 last.
Bitstring(creg, n) == [j \in 1 .. n |-> creg[n - j]]

\* The keys a shot of the circuit can produce.
Outcomes(circ) == {Bitstring(cfg.creg, circ.num_qubits) : cfg \in Exec(circ)}

\* get_counts raises for a circuit that measures nothing.
HasMeasure(circ) == \E i \in 1 .. Len(circ.data) : circ.data[i].name = "measure"

\* Tallies that lose a shot whenever two keys occur.
Histograms_LosesShot(keys, shots) ==
    {[k \in {a} |-> shots] : a \in keys} \cup
    {[k \in {a, b} |-> IF k = a THEN 1 ELSE shots - 2] :
        <<a, b>> \in {t \in keys \X keys : t[1] # t[2]}}

\* The tallies of `shots` shots over the possible keys, enumerated for
\* tallies in which at most two keys occur: all shots on one key, or one shot
\* on a key and the rest on another.
Histograms(keys, shots) ==
    {[k \in {a} |-> shots] : a \in keys} \cup
    {[k \in {a, b} |-> IF k = a THEN 1 ELSE shots - 1] :
        <<a, b>> \in {t \in keys \X keys : t[1] # t[2]}}

(***************************************************************************)
(* GET /simulate                                                           *)
(***************************************************************************)
SimFail(cause) == Rewrapped("simulate", "Failed to simulate circuit: ", cause)

\* A slip of line 163: g[1] for g[0], which is never "Measure".
NeedsMeasure_WrongField(gates) ==
    "Measure" \notin {gates[i].form : i \in 1 .. Len(gates)}

\* Line 163: no entry of the gate list is named "Measure".
NeedsMeasure(gates) == "Measure" \notin GateNames(gates)

\* A slip of lines 164-165: the list is told of a Measure the circuit never
\* gets.
AddMeasure_ListOnly(cs) == [cs EXCEPT !.gates = Append(@, MeasureEntry)]

\* A slip of lines 164-165: the circuit is measured and the list not told.
AddMeasure_CircuitOnly(cs) == [cs EXCEPT !.circuit = MeasureRange(@, cs.qubits)]

\* Lines 164-165.
AddMeasure(cs) ==
    [cs EXCEPT !.circuit = MeasureRange(@, cs.qubits),
               !.gates = Append(@, MeasureEntry)]

\* The handler on session cs: the sessions and responses it can leave (the
\* counts are sampled).
SimulateOutcomes(cs, shots) ==
    IF ~(MinShots <= shots /\ shots <= MaxShots)
    THEN {Outcome(cs, SimFail("Shots must be between 100 and 10000"))}
    ELSE IF cs.circuit.is_none
    THEN {Outcome(cs, SimFail("No circuit defined"))}
    ELSE IF NeedsMeasure(cs.gates) /\ MeasureRaises(cs.circuit, cs.qubits)
    THEN {Outcome(cs, SimFail("CircuitError"))}
    ELSE LET s == IF NeedsMeasure(cs.gates) THEN AddMeasure(cs) ELSE cs
         IN IF ~HasMeasure(s.circuit)
            THEN {Outcome(s, SimFail("QiskitError"))}
            ELSE {Outcome(s, Ok("simulate", shots, counts)) :
                     counts \in Histograms(Outcomes(s.circuit), shots)}

Simulate(shots) ==
    \E out \in SimulateOutcomes(circuit_state, shots) :
        /\ circuit_state' = out.state
        /\ response' = out.response

(***************************************************************************)
(* The session: any request, in any order.                                 *)
(***************************************************************************)
Next ==
    \/ \E qubits \in QubitsArgs : Reset(qubits)
    \/ \E example \in ExampleArgs, qubits \in QubitsArgs : LoadExample(example, qubits)
    \/ \E request \in GateRequests :
          AddGate(request.gate_type, request.target_qubit, request.control_qubit,
                  request.qubits)
    \/ \E shots \in ShotsArgs : Simulate(shots)

Spec == Init /\ [][Next]_vars

(***************************************************************************)
(* Properties.  A step is told by the response it leaves: response'.op is   *)
(* the handler that ran, response'.status # 200 that it rejected the        *)
(* request, response'.cause why.                                           *)
(***************************************************************************)
ShotsMsg == "Shots must be between 100 and 10000"
NoCircuitMsg == "No circuit defined"

HoldsMeasure(gates) == \E i \in 1 .. Len(gates) : gates[i].name = "Measure"

IsPrefix(s, t) == Len(s) <= Len(t) /\ SubSeq(t, 1, Len(s)) = s

\* A circuit that exists and has had nothing appended.
EmptyCircuit(cs) == ~cs.circuit.is_none /\ cs.gates = <<>> /\ cs.circuit.data = <<>>

\* C1 (as stated): simulate on a circuit that has no gates appended is
\* rejected; in particular a simulate directly after a successful reset(n).
C1_EmptyCircuitRejected ==
    [][(response'.op = "simulate" /\ EmptyCircuit(circuit_state))
          => response'.status # 200]_vars

\* C1 (amended): directly after a successful reset(n), simulate is rejected
\* only for its shot count: with shots in 100..10000 it is accepted and leaves
\* the gate list holding the one implicit Measure.
C1_FreshCircuitSimulates ==
    [][(response.op = "reset" /\ response.status = 200 /\ response'.op = "simulate")
          => /\ IF response'.status = 200
                THEN /\ response'.shots \in MinShots .. MaxShots
                     /\ circuit_state'.gates = <<MeasureEntry>>
                ELSE response'.cause = ShotsMsg
             /\ \A shots \in ShotsArgs \cap (MinShots .. MaxShots) :
                    \A out \in SimulateOutcomes(circuit_state, shots) :
                        out.response.status = 200]_vars

C1_Witness ==
    /\ response.op = "simulate" /\ response.status = 200
    /\ response.shots = MaxShots
    /\ circuit_state.qubits = MaxQubits
    /\ circuit_state.gates = <<MeasureEntry>>

\* C2 (as stated): simulate leaves the stored gate list and circuit as they
\* were.
C2_SimulateLeavesSession ==
    [][response'.op = "simulate" => circuit_state' = circuit_state]_vars

\* C2 (amended): simulate leaves the stored gate list and circuit as they
\* were when the list already holds a Measure or the request is rejected for
\* its shots or for want of a circuit; otherwise it appends one Measure entry
\* to the stored list and only measure instructions to the stored circuit,
\* everything stored before staying in place.  It never changes qubits.
C2_SimulatePersistsMeasure ==
    [][response'.op = "simulate"
          => IF \/ HoldsMeasure(circuit_state.gates)
                \/ response'.cause \in {ShotsMsg, NoCircuitMsg}
             THEN circuit_state' = circuit_state
             ELSE /\ circuit_state'.qubits = circuit_state.qubits
                  /\ circuit_state'.gates = Append(circuit_state.gates, MeasureEntry)
                  /\ circuit_state'.circuit.num_qubits = circuit_state.circuit.num_qubits
                  /\ IsPrefix(circuit_state.circuit.data, circuit_state'.circuit.data)
                  /\ \A i \in (Len(circuit_state.circuit.data) + 1)
                                 .. Len(circuit_state'.circuit.data) :
                         circuit_state'.circuit.data[i].name = "measure"]_vars

C2_Witness ==
    /\ response.op = "simulate" /\ response.status = 200
    /\ Len(circuit_state.gates) = 3
    /\ circuit_state.gates[1].name = "H"
    /\ circuit_state.gates[2].name = "CX"
    /\ circuit_state.gates[3] = MeasureEntry

\* C3: an add_gate request for a non-Measure gate whose target equals the
\* register size n it carries is rejected, and the gate list is as long after
\* it as before - in every session state, whatever its register size.
C3_TargetOutOfRangeRejected ==
    \A gate_type \in GateTypes \ {"Measure"}, control \in IndexArgs, n \in QubitsArgs :
        LET out == AddGateOutcome(circuit_state, gate_type, n, control, n)
        IN /\ out.response.status # 200
           /\ Len(out.state.gates) = Len(circuit_state.gates)

\* The causes with which the handlers reject a request themselves.
ValidationCauses ==
    {"Qubits must be between 1 and 5", "Invalid example",
     "Bell State requires at least 2 qubits",
     "Grover's example requires exactly 2 qubits",
     "Invalid gate type", "Invalid target qubit", "Invalid control qubit",
     "Control and target qubits must be different", ShotsMsg, NoCircuitMsg}

\* C4: a request that reset, load_example, add_gate or simulate rejects in
\* validation leaves the session (qubits, circuit, gates) as it was.
C4_RejectionLeavesSession ==
    [][(response'.status # 200 /\ response'.cause \in ValidationCauses)
          => circuit_state' = circuit_state]_vars

\* C5: the session's register size, and the width of the stored circuit, is
\* within 1..5 in every reachable state.
C5_RegisterSizeInRange ==
    /\ circuit_state.qubits \in MinQubits .. MaxQubits
    /\ ~circuit_state.circuit.is_none =>
           circuit_state.circuit.num_qubits \in MinQubits .. MaxQubits

\* A well-formed GateOp on a register of n qubits.
WellFormedGateOp(g, n) ==
    \/ g = MeasureEntry
    \/ /\ g.name \in {"H", "X"} /\ g.form = "index" /\ Len(g.args) = 1
       /\ 0 <= g.args[1] /\ g.args[1] < n
    \/ /\ g.name \in {"CX", "CZ"} /\ g.form = "index" /\ Len(g.args) = 2
       /\ 0 <= g.args[1] /\ g.args[1] < n
       /\ 0 <= g.args[2] /\ g.args[2] < n
       /\ g.args[1] # g.args[2]

\* C6: every entry of the session's gate list is a well-formed GateOp on the
\* session's current register size, in every reachable state.
C6_GateListWellFormed ==
    \A i \in 1 .. Len(circuit_state.gates) :
        WellFormedGateOp(circuit_state.gates[i], circuit_state.qubits)

\* C7: an add_gate request for CX or CZ whose control equals its target is
\* rejected, for every register size and every value of the shared index, and
\* neither the gate list nor the circuit ever holds a two-qubit gate on one
\* qubit twice.
C7_ControlEqualsTargetRejected ==
    /\ \A gate_type \in TwoQubitTypes, n \in QubitsArgs,
          index \in IndexArgs \cup QubitsArgs :
           AddGateOutcome(circuit_state, gate_type, index, index, n).response.status # 200
    /\ \A i \in 1 .. Len(circuit_state.gates) :
           circuit_state.gates[i].name \in {"CX", "CZ"} =>
               circuit_state.gates[i].args[1] # circuit_state.gates[i].args[2]
    /\ \A i \in 1 .. Len(circuit_state.circuit.data) :
           circuit_state.circuit.data[i].name \in {"cx", "cz"} =>
               circuit_state.circuit.data[i].qargs[1] # circuit_state.circuit.data[i].qargs[2]

C7_Witness ==
    /\ response.op = "add_gate"
    /\ response.cause = "Control and target qubits must be different"
    /\ \E i \in 1 .. Len(circuit_state.gates) : circuit_state.gates[i].name = "CX"

\* One measure of every qubit of the circuit, qubit 0 first.
MeasureAll(circ) ==
    [i \in 1 .. circ.num_qubits |-> Instr("measure", <<i - 1>>)]

\* C8: a simulate that passes validation on a gate list holding no Measure
\* appends exactly one Measure, covering all qubits, at the end of what it
\* runs; on a list that holds a Measure it appends nothing; and what a
\* successful simulate has run holds a Measure.
C8_ImplicitMeasure ==
    [][(response'.op = "simulate" /\ response'.cause \notin {ShotsMsg, NoCircuitMsg})
          => /\ IF HoldsMeasure(circuit_state.gates)
                THEN /\ circuit_state'.gates = circuit_state.gates
                     /\ circuit_state'.circuit = circuit_state.circuit
                ELSE /\ circuit_state'.gates = Append(circuit_state.gates, MeasureEntry)
                     /\ circuit_state'.circuit.data =
                            circuit_state.circuit.data \o MeasureAll(circuit_state.circuit)
             /\ response'.status = 200 =>
                    /\ HoldsMeasure(circuit_state'.gates)
                    /\ HasMeasure(circuit_state'.circuit)]_vars

\* C9: a step that changes the session's qubits value replaces the stored
\* circuit by a new one of the new size, and the gate list it leaves holds
\* nothing but what the request itself put there: nothing, the one gate of
\* an add_gate, or the gates of the example.
C9_ResizeStartsAnew ==
    [][circuit_state'.qubits # circuit_state.qubits
          => /\ ~circuit_state'.circuit.is_none
             /\ circuit_state'.circuit.num_qubits = circuit_state'.qubits
             /\ \/ circuit_state'.gates = <<>> /\ circuit_state'.circuit.data = <<>>
                \/ /\ response'.op = "add_gate" /\ response'.status = 200
                   /\ Len(circuit_state'.gates) = 1
                \/ /\ response'.op = "load_example" /\ response'.status = 200
                   /\ circuit_state'.gates \in {BellGates, GroverGates}]_vars

\* The key of the all-zero outcome on n qubits.
Zeros(n) == [j \in 1 .. n |-> 0]

\* C10: on a circuit of n qubits, n in 1..5, to which nothing has been
\* appended, a successful simulate counts all its shots on the all-zero key
\* of length n.
C10_IdentityCircuitAllZero ==
    [][(/\ EmptyCircuit(circuit_state)
        /\ circuit_state.qubits \in MinQubits .. MaxQubits
        /\ response'.op = "simulate" /\ response'.status = 200)
          => /\ response'.shots \in MinShots .. MaxShots
             /\ response'.counts = [k \in {Zeros(circuit_state.qubits)} |-> response'.shots]]_vars

C10_Witness ==
    /\ response.op = "simulate" /\ response.status = 200
    /\ circuit_state.qubits = 3
    /\ circuit_state.gates = <<MeasureEntry>>
    /\ response.counts = [k \in {<<0, 0, 0>>} |-> MinShots]

\* The session holds the Bell-state circuit on two qubits, as two add_gate
\* requests or load_example leave it, measured at the end or not yet.
HoldsBell(cs) ==
    /\ ~cs.circuit.is_none
    /\ cs.qubits = 2
    /\ cs.gates \in {BellGates, Append(BellGates, MeasureEntry)}

\* C11: a simulate of the Bell-state circuit (H on 0, CX 0 -> 1, n = 2) is
\* accepted for valid shots, counts only the keys "00" and "11", never "01"
\* or "10", and each of "00" and "11" is the key of a possible shot.
C11_BellOutcomes ==
    /\ [][(HoldsBell(circuit_state) /\ response'.op = "simulate"
              /\ response'.status = 200)
            => DOMAIN response'.counts \subseteq {<<0, 0>>, <<1, 1>>}]_vars
    /\ [](HoldsBell(circuit_state) =>
            \A shots \in ShotsArgs \cap (MinShots .. MaxShots) :
                /\ \A out \in SimulateOutcomes(circuit_state, shots) :
                       out.response.status = 200
                /\ \A key \in {<<0, 0>>, <<1, 1>>} :
                       \E out \in SimulateOutcomes(circuit_state, shots) :
                           key \in DOMAIN out.response.counts)

C11_Witness ==
    /\ response.op = "simulate" /\ response.status = 200
    /\ circuit_state.gates = Append(BellGates, MeasureEntry)
    /\ circuit_state.qubits = 2
    /\ DOMAIN response.counts = {<<0, 0>>, <<1, 1>>}

\* The sum of the counts of a histogram.
RECURSIVE SumCounts(_, _)
SumCounts(counts, keys) ==
    IF keys = {} THEN 0
    ELSE LET k == CHOOSE x \in keys : TRUE
         IN counts[k] + SumCounts(counts, keys \ {k})

\* A key of n classical bits.
IsBitstring(key, n) ==
    /\ DOMAIN key = 1 .. n
    /\ \A j \in 1 .. n : key[j] \in {0, 1}

C13_SimulateErrorsUnwrapped ==
    [][(response'.op = "simulate" /\ response'.cause \in {ShotsMsg, NoCircuitMsg})
          => /\ response'.status = 400
             /\ response'.detail = ""]_vars

\* The sum of the squares of the amplitudes a over the basis states in idx.
RECURSIVE SumSquares(_, _)
SumSquares(a, idx) ==
    IF idx = {} THEN 0
    ELSE LET i == CHOOSE x \in idx : TRUE
         IN a[i] * a[i] + SumSquares(a, idx \ {i})

\* The circuit is made of H, X, CX and CZ only.
UnitaryOnly(circ) ==
    \A i \in 1 .. Len(circ.data) : circ.data[i].name \in {"h", "x", "cx", "cz"}

EntryOf(gate_type, target, control) ==
    IF gate_type = "H (Hadamard)" THEN Entry("H", "index", <<target>>)
    ELSE IF gate_type = "X (Pauli-X)" THEN Entry("X", "index", <<target>>)
    ELSE IF gate_type = "CX (CNOT)" THEN Entry("CX", "index", <<control, target>>)
    ELSE IF gate_type = "CZ (Controlled-Z)" THEN Entry("CZ", "index", <<control, target>>)
    ELSE MeasureEntry

\* C15: the gate list is append-only.  An add_gate or simulate step that
\* leaves the session's qubits as it was leaves the old list as a prefix of
\* the new one; an add_gate request carrying the session's qubits leaves the
\* list as it was when rejected and, when accepted, with exactly one entry
\* more, at the end, describing the requested gate; a simulate request leaves
\* the old list as a prefix.
C15_GateListAppendOnly ==
    /\ [][(response'.op \in {"add_gate", "simulate"}
              /\ circuit_state'.qubits = circuit_state.qubits)
            => IsPrefix(circuit_state.gates, circuit_state'.gates)]_vars
    /\ [](/\ \A r \in {q \in GateRequests : q.qubits = circuit_state.qubits} :
               LET out == AddGateOutcome(circuit_state, r.gate_type, r.target_qubit,
                                         r.control_qubit, r.qubits)
               IN out.state.gates =
                      (IF out.response.status = 200
                       THEN Append(circuit_state.gates,
                                   EntryOf(r.gate_type, r.target_qubit, r.control_qubit))
                       ELSE circuit_state.gates)
           /\ \A shots \in ShotsArgs :
                  \A sim \in SimulateOutcomes(circuit_state, shots) :
                      IsPrefix(circuit_state.gates, sim.state.gates))

C15_Witness ==
    /\ response.op = "add_gate" /\ response.status = 200
    /\ Len(circuit_state.gates) = 3
    /\ circuit_state.gates[1] = Entry("X", "index", <<0>>)
    /\ circuit_state.gates[2] = MeasureEntry
    /\ circuit_state.gates[3] = Entry("H", "index", <<0>>)

NotMeasure(ins) == ins.name # "measure"

\* The circuit's gates other than measure, in order, and then one measure of
\* every qubit.
MeasuredAtEnd(circ) ==
    [circ EXCEPT !.data = SelectSeq(@, NotMeasure) \o MeasureAll(circ)]

\* C16: a Measure inside the gate sequence has no effect on the evolved
\* state: the keys a successful simulate counts are keys of measuring, at the
\* end, the state that the non-Measure gates alone produce, and every such
\* key is the key of a possible shot.
C16_MeasureIsNoOp ==
    [][(response'.op = "simulate" /\ response'.status = 200)
          => /\ DOMAIN response'.counts
                    \subseteq Outcomes(MeasuredAtEnd(circuit_state'.circuit))
             /\ Outcomes(circuit_state'.circuit)
                    = Outcomes(MeasuredAtEnd(circuit_state'.circuit))]_vars

\* The sessions that k more successful add_gate requests carrying qubits = n
\* can make of the sessions in `sessions`.
RECURSIVE AfterAddGates(_, _, _)
AfterAddGates(sessions, n, k) ==
    IF k = 0 THEN sessions
    ELSE AfterAddGates(
             {out.state :
                 out \in {o \in {AddGateOutcome(cs, r.gate_type, r.target_qubit,
                                                r.control_qubit, r.qubits) :
                                     cs \in sessions,
                                     r \in {q \in GateRequests : q.qubits = n}} :
                             o.response.status = 200}},
             n, k - 1)

\* The sessions reset(n) followed by k successful add_gate requests with that
\* n can leave.
BuiltByAddGate(cs, n, k) == AfterAddGates({ResetOutcome(cs, n).state}, n, k)

\* C17: the session an accepted load_example leaves (qubits, gates, circuit)
\* is one that reset(n) followed by successful add_gate requests with that n
\* leaves - by as many requests as the list it leaves has entries, since each
\* adds one.
C17_ExampleIsCannedAppends ==
    [][(response'.op = "load_example" /\ response'.status = 200)
          => circuit_state' \in BuiltByAddGate(circuit_state, circuit_state'.qubits,
                                               Len(circuit_state'.gates))]_vars

\* C18: whenever the session's circuit is defined, the session's qubits is
\* the number of qubits the stored circuit was created with.
C18_QubitsMatchCircuit ==
    ~circuit_state.circuit.is_none
        => circuit_state.qubits = circuit_state.circuit.num_qubits

\* The number of "Measure" entries of a gate list.
MeasureEntries(gates) ==
    Cardinality({i \in 1 .. Len(gates) : gates[i].name = "Measure"})

\* The number of measurements of qubit q in a circuit.
MeasuresOf(circ, q) ==
    Cardinality({i \in 1 .. Len(circ.data) :
                    circ.data[i].name = "measure" /\ circ.data[i].qargs = <<q>>})

\* C19: whenever the circuit is defined, the gate list holds a "Measure"
\* entry exactly when the stored circuit holds a measurement, every qubit of
\* the circuit is measured as often as the list has "Measure" entries, and no
\* simulate request runs a circuit without measurement.
C19_MeasureInStep ==
    ~circuit_state.circuit.is_none
        => /\ HoldsMeasure(circuit_state.gates) <=> HasMeasure(circuit_state.circuit)
           /\ \A q \in 0 .. (circuit_state.circuit.num_qubits - 1) :
                  MeasuresOf(circuit_state.circuit, q) = MeasureEntries(circuit_state.gates)
           /\ \A shots \in ShotsArgs :
                  \A out \in SimulateOutcomes(circuit_state, shots) :
                      out.response.cause # "QiskitError"

\* The simulate request passed the checks of shots and circuit.
PassedValidation(r) == r.op = "simulate" /\ r.cause \notin {ShotsMsg, NoCircuitMsg}

\* C20: a simulate that directly follows a simulate which passed validation
\* (a successful one in particular) leaves qubits, the gate list and the
\* stored circuit as they were; a simulate rejected in validation changes
\* nothing, and any simulate appends at most one entry, a Measure - so a run
\* of consecutive simulate requests appends at most one implicit Measure.
C20_SimulateIdempotent ==
    [][response'.op = "simulate"
          => /\ PassedValidation(response) => circuit_state' = circuit_state
             /\ ~PassedValidation(response') => circuit_state' = circuit_state
             /\ \/ circuit_state' = circuit_state
                \/ /\ circuit_state'.gates = Append(circuit_state.gates, MeasureEntry)
                   /\ circuit_state'.qubits = circuit_state.qubits
                   /\ ~HoldsMeasure(circuit_state.gates)]_vars

\* after a successful simulate that appended the Measure, a further simulate
\* is accepted and changes nothing
C20_Witness ==
    /\ response.op = "simulate" /\ response.status = 200
    /\ Len(circuit_state.gates) = 2
    /\ circuit_state.gates[1].name = "X"
    /\ circuit_state.gates[2] = MeasureEntry
    /\ \A shots \in ShotsArgs \cap (MinShots .. MaxShots) :
           \A out \in SimulateOutcomes(circuit_state, shots) :
               out.response.status = 200 /\ out.state = circuit_state

====
